---- MODULE Spec2Model ----
(***************************************************************************)
(* A model of BPlusTree.py: an insert-only B+ tree.  Objects live in a     *)
(* heap (a sequence of cells indexed by address) so that the leaves'       *)
(* _next links and the nodes' _pointers are references, as in the source.  *)
(***************************************************************************)
EXTENDS Integers, Sequences, FiniteSets, TLC

\* ------------------------------------------------------------------ bounds
MaxKey == 7            \* keys passed to insert are 1..MaxKey
MaxCap == 3            \* capacities passed to the constructor are 0..MaxCap
MaxHeight == 5         \* insert is not called once height() has reached this

Keys == 1 .. MaxKey
CapacityInputs == 0 .. MaxCap

\* Python's None, for a missing _next and for "nothing to promote".
None == -1

VARIABLES
    heap,        \* the objects: heap[a] is the BPTreeLeaf / BPTreeNode at address a
    root,        \* BPTree._tree
    capacity,    \* BPTree._capacity
    inserted,    \* history: the set of keys passed to insert so far
    run,         \* history: n when the calls so far were insert(1), ..., insert(n); None otherwise
    returned     \* what the caller holds from its last read call, until its next insert

vars == <<heap, root, capacity, inserted, run, returned>>

\* the caller holds no result
NoResult == [op |-> "none", alias |-> None, value |-> <<>>]

\* ------------------------------------------------------- list primitives
\* a[lo:hi] for 0 <= lo, 0 <= hi (Python slice, 0-based, hi exclusive, clamped)
Slice(a, lo, hi) ==
    LET h == IF hi > Len(a) THEN Len(a) ELSE hi
    IN  IF lo >= h THEN <<>> ELSE SubSeq(a, lo + 1, h)

\* a[lo:]
SliceFrom(a, lo) == Slice(a, lo, Len(a))

\* list.insert(i, x) for i >= 0
ListInsert(a, i, x) ==
    LET p == IF i > Len(a) THEN Len(a) ELSE i
    IN  Slice(a, 0, p) \o <<x>> \o SliceFrom(a, p)

\* list.remove(x): drops the first element equal to x
RECURSIVE ListRemove(_, _)
ListRemove(a, x) ==
    IF a = <<>> THEN <<>>
    ELSE IF Head(a) = x THEN Tail(a)
    ELSE <<Head(a)>> \o ListRemove(Tail(a), x)

\* bisect.bisect_left(a, x, lo, hi): binary search, 0-based result
RECURSIVE bisect_left_from(_, _, _, _)
bisect_left_from(a, x, lo, hi) ==
    IF lo < hi
    THEN LET mid == (lo + hi) \div 2
         IN  IF a[mid + 1] < x
             THEN bisect_left_from(a, x, mid + 1, hi)
             ELSE bisect_left_from(a, x, lo, mid)
    ELSE lo

bisect_left(a, x) == bisect_left_from(a, x, 0, Len(a))

\* bisect.bisect_right(a, x, lo, hi)
RECURSIVE bisect_right_from(_, _, _, _)
bisect_right_from(a, x, lo, hi) ==
    IF lo < hi
    THEN LET mid == (lo + hi) \div 2
         IN  IF x < a[mid + 1]
             THEN bisect_right_from(a, x, lo, mid)
             ELSE bisect_right_from(a, x, mid + 1, hi)
    ELSE lo

\* bisect_right with the search of bisect_left: a key equal to a separator goes left
bisect_right_AsLeft(a, x) == bisect_left(a, x)

bisect_right(a, x) == bisect_right_from(a, x, 0, Len(a))

\* ------------------------------------------------------------ constructors
\* BPTreeLeaf(keys, next_leaf, capacity)
BPTreeLeaf(keys, next_leaf, cap) ==
    [kind |-> "leaf", keys |-> keys, pointers |-> <<>>, next |-> next_leaf, capacity |-> cap]

\* BPTreeNode(keys, pointers, capacity)
BPTreeNode(keys, pointers, cap) ==
    [kind |-> "node", keys |-> keys, pointers |-> pointers, next |-> None, capacity |-> cap]

\* allocation of a new object: it gets the next free address
Alloc(h, obj) == Append(h, obj)
NewAddr(h) == Len(h) + 1

\* the result of an insert: the heap after it and the returned pair
Result(h, pkey, ppointer) == [heap |-> h, pkey |-> pkey, ppointer |-> ppointer]

\* ------------------------------------------------------------ BPTreeLeaf
\* BPTreeLeaf.insert without the test for a key that is already there
LeafInsert_NoDuplicateTest(h, self, key) ==
    LET index == bisect_left(h[self].keys, key)
        keys1 == ListInsert(h[self].keys, index, key)
        cap == h[self].capacity
        split_index == (cap + 1) \div 2
    IN  IF Len(keys1) > cap
        THEN LET new_leaf == BPTreeLeaf(SliceFrom(keys1, split_index), h[self].next, cap)
                 addr == NewAddr(h)
                 h1 == [Alloc(h, new_leaf) EXCEPT ![self].keys = Slice(keys1, 0, split_index),
                                                  ![self].next = addr]
             IN  Result(h1, new_leaf.keys[1], addr)
        ELSE Result([h EXCEPT ![self].keys = keys1], None, None)

\* BPTreeLeaf.insert where the splitting leaf keeps all its keys
LeafInsert_NoTruncate(h, self, key) ==
    LET index == bisect_left(h[self].keys, key)
        keys1 == IF index = Len(h[self].keys) \/ h[self].keys[index + 1] # key
                 THEN ListInsert(h[self].keys, index, key)
                 ELSE h[self].keys
        cap == h[self].capacity
        split_index == (cap + 1) \div 2
    IN  IF Len(keys1) > cap
        THEN LET new_leaf == BPTreeLeaf(SliceFrom(keys1, split_index), h[self].next, cap)
                 addr == NewAddr(h)
                 h1 == [Alloc(h, new_leaf) EXCEPT ![self].keys = keys1,
                                                  ![self].next = addr]
             IN  Result(h1, new_leaf.keys[1], addr)
        ELSE Result([h EXCEPT ![self].keys = keys1], None, None)

\* BPTreeLeaf.insert that promotes the key it was given
LeafInsert_PromotesInsertedKey(h, self, key) ==
    LET index == bisect_left(h[self].keys, key)
        keys1 == IF index = Len(h[self].keys) \/ h[self].keys[index + 1] # key
                 THEN ListInsert(h[self].keys, index, key)
                 ELSE h[self].keys
        cap == h[self].capacity
        split_index == (cap + 1) \div 2
    IN  IF Len(keys1) > cap
        THEN LET new_leaf == BPTreeLeaf(SliceFrom(keys1, split_index), h[self].next, cap)
                 addr == NewAddr(h)
                 h1 == [Alloc(h, new_leaf) EXCEPT ![self].keys = Slice(keys1, 0, split_index),
                                                  ![self].next = addr]
             IN  Result(h1, key, addr)
        ELSE Result([h EXCEPT ![self].keys = keys1], None, None)

\* BPTreeLeaf.insert whose new leaf does not take over the old _next
LeafInsert_NewLeafWithoutNext(h, self, key) ==
    LET index == bisect_left(h[self].keys, key)
        keys1 == IF index = Len(h[self].keys) \/ h[self].keys[index + 1] # key
                 THEN ListInsert(h[self].keys, index, key)
                 ELSE h[self].keys
        cap == h[self].capacity
        split_index == (cap + 1) \div 2
    IN  IF Len(keys1) > cap
        THEN LET new_leaf == BPTreeLeaf(SliceFrom(keys1, split_index), None, cap)
                 addr == NewAddr(h)
                 h1 == [Alloc(h, new_leaf) EXCEPT ![self].keys = Slice(keys1, 0, split_index),
                                                  ![self].next = addr]
             IN  Result(h1, new_leaf.keys[1], addr)
        ELSE Result([h EXCEPT ![self].keys = keys1], None, None)

\* BPTreeLeaf.insert with split_index = cap // 2
LeafInsert_SplitLow(h, self, key) ==
    LET index == bisect_left(h[self].keys, key)
        keys1 == IF index = Len(h[self].keys) \/ h[self].keys[index + 1] # key
                 THEN ListInsert(h[self].keys, index, key)
                 ELSE h[self].keys
        cap == h[self].capacity
        split_index == cap \div 2
    IN  IF Len(keys1) > cap
        THEN LET new_leaf == BPTreeLeaf(SliceFrom(keys1, split_index), h[self].next, cap)
                 addr == NewAddr(h)
                 h1 == [Alloc(h, new_leaf) EXCEPT ![self].keys = Slice(keys1, 0, split_index),
                                                  ![self].next = addr]
             IN  Result(h1, new_leaf.keys[1], addr)
        ELSE Result([h EXCEPT ![self].keys = keys1], None, None)

\* BPTreeLeaf.insert(key)
LeafInsert(h, self, key) ==
    LET index == bisect_left(h[self].keys, key)
        keys1 == IF index = Len(h[self].keys) \/ h[self].keys[index + 1] # key
                 THEN ListInsert(h[self].keys, index, key)
                 ELSE h[self].keys
        cap == h[self].capacity
        split_index == (cap + 1) \div 2
    IN  IF Len(keys1) > cap
        THEN LET new_leaf == BPTreeLeaf(SliceFrom(keys1, split_index), h[self].next, cap)
                 addr == NewAddr(h)
                 h1 == [Alloc(h, new_leaf) EXCEPT ![self].keys = Slice(keys1, 0, split_index),
                                                  ![self].next = addr]
             IN  Result(h1, new_leaf.keys[1], addr)
        ELSE Result([h EXCEPT ![self].keys = keys1], None, None)

\* BPTreeLeaf.find(key)
LeafFind(h, self, key) == \E i \in 1 .. Len(h[self].keys) : h[self].keys[i] = key

\* BPTreeLeaf.keys(): this leaf's keys, then those of every leaf down the _next chain
RECURSIVE LeafKeys(_, _)
LeafKeys(h, self) ==
    IF h[self].next = None THEN h[self].keys
    ELSE h[self].keys \o LeafKeys(h, h[self].next)

\* ------------------------------------------------------------ BPTreeNode
\* insert_here that returns the pointer it was given instead of the new node
insert_here_WrongPointer(h, self, position, key, pointer) ==
    LET keys1 == ListInsert(h[self].keys, position, key)
        pointers1 == ListInsert(h[self].pointers, position + 1, pointer)
        cap == h[self].capacity
        split_index == (cap + 1) \div 2
    IN  IF Len(keys1) > cap
        THEN LET pkey == keys1[split_index + 1]
                 keys2 == ListRemove(keys1, pkey)
                 new_lateral_node == BPTreeNode(SliceFrom(keys2, split_index),
                                                SliceFrom(pointers1, split_index + 1), cap)
                 h1 == [Alloc(h, new_lateral_node)
                            EXCEPT ![self].keys = Slice(keys2, 0, split_index),
                                   ![self].pointers = Slice(pointers1, 0, split_index + 1)]
             IN  Result(h1, pkey, pointer)
        ELSE Result([h EXCEPT ![self].keys = keys1, ![self].pointers = pointers1], None, None)

\* insert_here that splits one key too late
insert_here_LateSplit(h, self, position, key, pointer) ==
    LET keys1 == ListInsert(h[self].keys, position, key)
        pointers1 == ListInsert(h[self].pointers, position + 1, pointer)
        cap == h[self].capacity
        split_index == (cap + 1) \div 2
    IN  IF Len(keys1) > cap + 1
        THEN LET pkey == keys1[split_index + 1]
                 keys2 == ListRemove(keys1, pkey)
                 new_lateral_node == BPTreeNode(SliceFrom(keys2, split_index),
                                                SliceFrom(pointers1, split_index + 1), cap)
                 addr == NewAddr(h)
                 h1 == [Alloc(h, new_lateral_node)
                            EXCEPT ![self].keys = Slice(keys2, 0, split_index),
                                   ![self].pointers = Slice(pointers1, 0, split_index + 1)]
             IN  Result(h1, pkey, addr)
        ELSE Result([h EXCEPT ![self].keys = keys1, ![self].pointers = pointers1], None, None)

\* insert_here whose new node takes the pointers from split_index on
insert_here_SiblingTakesSplitChild(h, self, position, key, pointer) ==
    LET keys1 == ListInsert(h[self].keys, position, key)
        pointers1 == ListInsert(h[self].pointers, position + 1, pointer)
        cap == h[self].capacity
        split_index == (cap + 1) \div 2
    IN  IF Len(keys1) > cap
        THEN LET pkey == keys1[split_index + 1]
                 keys2 == ListRemove(keys1, pkey)
                 new_lateral_node == BPTreeNode(SliceFrom(keys2, split_index),
                                                SliceFrom(pointers1, split_index), cap)
                 addr == NewAddr(h)
                 h1 == [Alloc(h, new_lateral_node)
                            EXCEPT ![self].keys = Slice(keys2, 0, split_index),
                                   ![self].pointers = Slice(pointers1, 0, split_index + 1)]
             IN  Result(h1, pkey, addr)
        ELSE Result([h EXCEPT ![self].keys = keys1, ![self].pointers = pointers1], None, None)

\* insert_here without self._keys.remove(pkey)
insert_here_KeepsPromotedKey(h, self, position, key, pointer) ==
    LET keys1 == ListInsert(h[self].keys, position, key)
        pointers1 == ListInsert(h[self].pointers, position + 1, pointer)
        cap == h[self].capacity
        split_index == (cap + 1) \div 2
    IN  IF Len(keys1) > cap
        THEN LET pkey == keys1[split_index + 1]
                 new_lateral_node == BPTreeNode(SliceFrom(keys1, split_index),
                                                SliceFrom(pointers1, split_index + 1), cap)
                 addr == NewAddr(h)
                 h1 == [Alloc(h, new_lateral_node)
                            EXCEPT ![self].keys = Slice(keys1, 0, split_index),
                                   ![self].pointers = Slice(pointers1, 0, split_index + 1)]
             IN  Result(h1, pkey, addr)
        ELSE Result([h EXCEPT ![self].keys = keys1, ![self].pointers = pointers1], None, None)

\* BPTreeNode.insert_here(position, key, pointer)
insert_here(h, self, position, key, pointer) ==
    LET keys1 == ListInsert(h[self].keys, position, key)
        pointers1 == ListInsert(h[self].pointers, position + 1, pointer)
        cap == h[self].capacity
        split_index == (cap + 1) \div 2
    IN  IF Len(keys1) > cap
        THEN LET pkey == keys1[split_index + 1]
                 keys2 == ListRemove(keys1, pkey)
                 new_lateral_node == BPTreeNode(SliceFrom(keys2, split_index),
                                                SliceFrom(pointers1, split_index + 1), cap)
                 addr == NewAddr(h)
                 h1 == [Alloc(h, new_lateral_node)
                            EXCEPT ![self].keys = Slice(keys2, 0, split_index),
                                   ![self].pointers = Slice(pointers1, 0, split_index + 1)]
             IN  Result(h1, pkey, addr)
        ELSE Result([h EXCEPT ![self].keys = keys1, ![self].pointers = pointers1], None, None)

\* BPTreeNode.insert(key) / BPTreeLeaf.insert(key), by the class of the object at self
RECURSIVE NodeInsert(_, _, _)
NodeInsert(h, self, key) ==
    IF h[self].kind = "leaf" THEN LeafInsert(h, self, key)
    ELSE LET r == NodeInsert(h, h[self].pointers[bisect_right(h[self].keys, key) + 1], key)
         IN  IF r.pkey # None
             THEN LET position == bisect_left(r.heap[self].keys, r.pkey)
                  IN  insert_here(r.heap, self, position, r.pkey, r.ppointer)
             ELSE Result(r.heap, None, None)

\* BPTreeNode.find(key) / BPTreeLeaf.find(key)
RECURSIVE NodeFind(_, _, _)
NodeFind(h, self, key) ==
    IF h[self].kind = "leaf" THEN LeafFind(h, self, key)
    ELSE NodeFind(h, h[self].pointers[bisect_right(h[self].keys, key) + 1], key)

\* BPTreeNode.keys() / BPTreeLeaf.keys()
RECURSIVE NodeKeys(_, _)
NodeKeys(h, self) ==
    IF h[self].kind = "leaf" THEN LeafKeys(h, self)
    ELSE NodeKeys(h, h[self].pointers[1])

\* num_nodes(): 0 for a leaf, 1 + sum(map(num_nodes, _pointers)) for a node
RECURSIVE NodeNumNodes(_, _)
NodeNumNodes(h, self) ==
    IF h[self].kind = "leaf" THEN 0
    ELSE LET RECURSIVE SumNodes(_)
             SumNodes(ps) == IF ps = <<>> THEN 0
                             ELSE NodeNumNodes(h, Head(ps)) + SumNodes(Tail(ps))
         IN  1 + SumNodes(h[self].pointers)

\* num_leaves(): 1 for a leaf, sum(map(num_leaves, _pointers)) for a node
RECURSIVE NodeNumLeaves(_, _)
NodeNumLeaves(h, self) ==
    IF h[self].kind = "leaf" THEN 1
    ELSE LET RECURSIVE SumLeaves(_)
             SumLeaves(ps) == IF ps = <<>> THEN 0
                              ELSE NodeNumLeaves(h, Head(ps)) + SumLeaves(Tail(ps))
         IN  SumLeaves(h[self].pointers)

\* num_keys(): len(_keys) for a leaf, sum(map(num_keys, _pointers)) for a node
RECURSIVE NodeNumKeys(_, _)
NodeNumKeys(h, self) ==
    IF h[self].kind = "leaf" THEN Len(h[self].keys)
    ELSE LET RECURSIVE SumKeys(_)
             SumKeys(ps) == IF ps = <<>> THEN 0
                            ELSE NodeNumKeys(h, Head(ps)) + SumKeys(Tail(ps))
         IN  SumKeys(h[self].pointers)

\* height()
RECURSIVE NodeHeight(_, _)
NodeHeight(h, self) ==
    IF h[self].kind = "leaf" THEN 0
    ELSE 1 + NodeHeight(h, h[self].pointers[1])

\* ---------------------------------------------------------------- BPTree
\* BPTree.find, keys, num_nodes, num_leaves, num_keys, height, stats on the current tree
find(key) == NodeFind(heap, root, key)
keys == NodeKeys(heap, root)
num_nodes == NodeNumNodes(heap, root)
num_leaves == NodeNumLeaves(heap, root)
num_keys == NodeNumKeys(heap, root)
height == NodeHeight(heap, root) + 1
\* stats in the order its docstring gives: keys before leaves
stats_DocstringOrder == <<height, num_nodes, num_keys, num_leaves>>

stats == <<height, num_nodes, num_leaves, num_keys>>

\* the cells at depth d below self (d = 1: self), left to right
RECURSIVE LevelCells(_, _, _)
LevelCells(h, self, d) ==
    IF d = 1 THEN <<self>>
    ELSE IF h[self].kind = "leaf" THEN <<>>
    ELSE LET RECURSIVE Cat(_)
             Cat(ps) == IF ps = <<>> THEN <<>>
                        ELSE LevelCells(h, Head(ps), d - 1) \o Cat(Tail(ps))
         IN  Cat(h[self].pointers)

\* str(node) / str(leaf): the text of the object's key list
Str(h, self) == h[self].keys

\* the leaf the last line of __str__ starts from: _pointers[0], then height()-2 more times
RECURSIVE FirstLeaf(_, _, _)
FirstLeaf(h, self, n) == IF n = 0 THEN self ELSE FirstLeaf(h, h[self].pointers[1], n - 1)

\* the while loop of __str__: str(leaf) of every leaf from self down the _next chain
RECURSIVE ChainStr(_, _)
ChainStr(h, self) ==
    IF h[self].next = None THEN <<Str(h, self)>>
    ELSE <<Str(h, self)>> \o ChainStr(h, h[self].next)

\* one line of BPTree.__str__: pad spaces, then the items, each followed by
\* (sep = " ") or joined by (sep = "->") the separator; the line ends with "\n"
Line(pad, items, sep) == [pad |-> pad, items |-> items, sep |-> sep]

\* BPTree.__str__(): the lines of the rendering, one per pass of the for loop
Render ==
    [level \in 1 .. height |->
        IF level = 1
        THEN Line(num_keys * 2, <<Str(heap, root)>>, "")
        ELSE IF level = height
        THEN Line(0, ChainStr(heap, FirstLeaf(heap, root, height - 1)), "->")
        ELSE IF level = 2
        THEN Line(num_keys, [i \in 1 .. Len(heap[root].pointers) |->
                                 Str(heap, heap[root].pointers[i])], " ")
        ELSE IF level = 3
        THEN Line(num_keys,
                  LET RECURSIVE Kids(_)
                      Kids(cs) ==
                          IF cs = <<>> THEN <<>>
                          ELSE [i \in 1 .. Len(heap[Head(cs)].pointers) |->
                                    Str(heap, heap[Head(cs)].pointers[i])] \o Kids(Tail(cs))
                  IN  Kids(heap[root].pointers), " ")
        ELSE Line(0, <<>>, "")]

\* BPTree.__init__(capacity): no check of the argument
Init ==
    /\ capacity \in CapacityInputs
    /\ heap = <<BPTreeLeaf(<<>>, None, capacity)>>
    /\ root = 1
    /\ inserted = {}
    /\ run = 0
    /\ returned = NoResult

\* BPTree.insert whose new root lists the new sibling before the old root
TreeInsert_SwappedChildren(h, rt, cap, key) ==
    LET r == NodeInsert(h, rt, key)
    IN  IF r.pkey # None
        THEN [heap |-> Alloc(r.heap, BPTreeNode(<<r.pkey>>, <<r.ppointer, rt>>, cap)),
              root |-> NewAddr(r.heap)]
        ELSE [heap |-> r.heap, root |-> rt]

\* the heap and root after BPTree.insert(key) on heap h with root rt
TreeInsert(h, rt, cap, key) ==
    LET r == NodeInsert(h, rt, key)
    IN  IF r.pkey # None
        THEN [heap |-> Alloc(r.heap, BPTreeNode(<<r.pkey>>, <<rt, r.ppointer>>, cap)),
              root |-> NewAddr(r.heap)]
        ELSE [heap |-> r.heap, root |-> rt]

\* BPTree.insert(key)
Insert(key) ==
    /\ height < MaxHeight
    /\ LET t == TreeInsert(heap, root, capacity, key)
       IN  /\ heap' = t.heap
           /\ root' = t.root
    /\ inserted' = inserted \cup {key}
    /\ run' = IF run # None /\ key = run + 1 THEN key ELSE None
    /\ returned' = NoResult
    /\ UNCHANGED capacity

Next == \E key \in Keys : Insert(key)

Spec == Init /\ [][Next]_vars

\* ------------------------------------------------------------ measurements
\* the addresses of the objects, of the leaves and of the internal nodes
Cells == 1 .. Len(heap)
LeafCells == {c \in Cells : heap[c].kind = "leaf"}
NodeCells == {c \in Cells : heap[c].kind = "node"}

\* s is strictly increasing
StrictlyIncreasing(s) == \A i \in 1 .. Len(s) - 1 : s[i] < s[i + 1]

\* the number of levels on the longest path from self down to a leaf, self's own level included
RECURSIVE Levels(_, _)
Levels(h, self) ==
    IF h[self].kind = "leaf" THEN 1
    ELSE LET ds == {Levels(h, h[self].pointers[i]) : i \in 1 .. Len(h[self].pointers)}
         IN  1 + (CHOOSE d \in ds : \A e \in ds : e <= d)

\* the number of leaves on the _next chain that starts at self
RECURSIVE ChainLength(_, _)
ChainLength(h, self) ==
    IF h[self].next = None THEN 1 ELSE 1 + ChainLength(h, h[self].next)

\* the leftmost descendant leaf of self
RECURSIVE LeftmostLeaf(_, _)
LeftmostLeaf(h, self) ==
    IF h[self].kind = "leaf" THEN self ELSE LeftmostLeaf(h, h[self].pointers[1])

\* ------------------------------------------------------------------ claims
\* C1: with capacity >= 1, find(k) is true exactly for the keys that were
\* inserted, and keys() has as many entries as there are distinct inserted keys.
C1_FindRoundTrip ==
    capacity >= 1 =>
        /\ \A k \in Keys : find(k) <=> k \in inserted
        /\ Len(keys) = Cardinality(inserted)

\* C1 witness: a tree that has split, with keys inserted and keys never inserted
C1_Witness ==
    /\ capacity >= 1
    /\ height >= 3
    /\ Cardinality(inserted) >= 4
    /\ inserted # Keys

\* C2: with capacity >= 1, keys() is strictly increasing, although a key
\* promoted from a leaf split is also a separator of an internal node.
C2_KeysStrictlyIncreasing == capacity >= 1 => StrictlyIncreasing(keys)

\* C2 witness: a key of keys() is also a separator of an internal node
C2_Witness ==
    /\ capacity >= 1
    /\ Len(keys) >= 3
    /\ \E c \in NodeCells : \E i \in 1 .. Len(heap[c].keys) : find(heap[c].keys[i])

\* C3: with capacity >= 1, all children of every internal node have the same
\* height, so height() through children[0] is the height through any child.
C3_Balanced ==
    capacity >= 1 =>
        \A c \in NodeCells : \A i \in 1 .. Len(heap[c].pointers) :
            /\ NodeHeight(heap, heap[c].pointers[i]) = NodeHeight(heap, heap[c].pointers[1])
            /\ Levels(heap, heap[c].pointers[i]) = NodeHeight(heap, heap[c].pointers[1]) + 1

\* C3 witness: a tree of three levels whose root has several children
C3_Witness ==
    /\ capacity >= 1
    /\ height >= 3
    /\ Len(heap[root].pointers) >= 2

\* C4: with capacity >= 1, after every insert each leaf and each internal
\* node holds at most capacity keys.
C4_AtMostCapacityKeys ==
    capacity >= 1 => \A c \in Cells : Len(heap[c].keys) <= capacity

\* C4 witness: a leaf and an internal node are both full after splits
C4_Witness ==
    /\ capacity >= 1
    /\ \E c \in LeafCells : Len(heap[c].keys) = capacity
    /\ \E c \in NodeCells : Len(heap[c].keys) = capacity
    /\ height >= 3

\* C5 (as claimed, for every tree the constructor makes): insert(k) of a key
\* inserted before changes nothing: no object's keys, pointers or next, no new
\* object, and the same root.
C5_DuplicateInsertIsNoOp ==
    [][\A k \in Keys : (k \in inserted /\ Insert(k)) => (heap' = heap /\ root' = root)]_vars

\* C5 on the trees with capacity >= 1 only: there the duplicate insert is a
\* no-op, and keys() and stats() stay as they were.
C5_DuplicateInsertIsNoOpValidCapacity ==
    [][\A k \in Keys : (capacity >= 1 /\ k \in inserted /\ Insert(k)) =>
            /\ heap' = heap
            /\ root' = root
            /\ NodeKeys(heap', root') = keys
            /\ NodeInsert(heap, root, k).pkey = None]_vars

\* C6: no tree with capacity < 1 comes into existence.
C6_NoTreeWithNonPositiveCapacity == capacity >= 1

C8_HeightGrowsOnlyAtRoot ==
    /\ height = 1
    /\ [][\A k \in Keys : Insert(k) =>
            LET r == NodeInsert(heap, root, k)
                height_after == NodeHeight(heap', root') + 1
            IN  /\ height_after \in {height, height + 1}
                /\ height_after = height + 1 <=> r.pkey # None
                /\ r.pkey # None =>
                      /\ root' \notin Cells
                      /\ heap'[root'].kind = "node"
                      /\ heap'[root'].keys = <<r.pkey>>
                      /\ heap'[root'].pointers = <<root, r.ppointer>>
                /\ r.pkey = None => root' = root]_vars

\* C8 witness: the root has been replaced at least twice
C8_Witness == height >= 3 /\ heap[root].kind = "node" /\ Len(heap[root].keys) = 1

\* C9 (as claimed, on the trees with capacity >= 1): the rendering has height()
\* lines; the line of an internal level shows the key lists of all nodes of that
\* level left to right; the last line shows all leaves in order, joined by "->".
C9_RenderShowsEveryLevel ==
    capacity >= 1 =>
        /\ DOMAIN Render = 1 .. height
        /\ \A level \in 1 .. height - 1 :
               Render[level].items =
                   [i \in 1 .. Len(LevelCells(heap, root, level)) |->
                        heap[LevelCells(heap, root, level)[i]].keys]
        /\ Render[height].items =
               [i \in 1 .. Len(LevelCells(heap, root, height)) |->
                    heap[LevelCells(heap, root, height)[i]].keys]
        /\ height >= 2 => Render[height].sep = "->"

\* C10: with capacity 1, after insert(1), ..., insert(7) on the empty tree,
\* num_keys() is 7, find(k) holds for k in 1..7 and 7 <= num_leaves() <= 14;
\* and no insert of that run lowers height().
C10_ScenarioC ==
    /\ []((capacity = 1 /\ run = 7) =>
            /\ num_keys = 7
            /\ \A k \in 1 .. 7 : find(k)
            /\ 7 <= num_leaves /\ num_leaves <= 14)
    /\ [][(capacity = 1 /\ run # None /\ run' # None /\ run' <= 7) =>
            NodeHeight(heap', root') + 1 >= height]_vars

\* C10 witness: the run insert(1), ..., insert(7) on a tree of capacity 1 is complete
C10_Witness == capacity = 1 /\ run = 7 /\ height > 1

\* the keys stored in the leaves of the subtree below self
RECURSIVE SubtreeKeys(_, _)
SubtreeKeys(h, self) ==
    IF h[self].kind = "leaf" THEN {h[self].keys[i] : i \in 1 .. Len(h[self].keys)}
    ELSE UNION {SubtreeKeys(h, h[self].pointers[i]) : i \in 1 .. Len(h[self].pointers)}

\* the leaf that find(key) and insert(key) reach from self by upper-bound routing
RECURSIVE TargetLeaf(_, _, _)
TargetLeaf(h, self, key) ==
    IF h[self].kind = "leaf" THEN self
    ELSE TargetLeaf(h, h[self].pointers[bisect_right(h[self].keys, key) + 1], key)

\* C11: with capacity >= 1, for every internal node and child index i, every
\* leaf key below children[i] is < keys[i] (if there is one) and >= keys[i-1]
\* (if i > 0); so routing reaches the only leaf that can hold the key.
C11_SeparatorsBoundSubtrees ==
    capacity >= 1 =>
        /\ \A c \in NodeCells : \A i \in 1 .. Len(heap[c].pointers) :
               \A k \in SubtreeKeys(heap, heap[c].pointers[i]) :
                   /\ i <= Len(heap[c].keys) => k < heap[c].keys[i]
                   /\ (i > 1 /\ i - 1 <= Len(heap[c].keys)) => k >= heap[c].keys[i - 1]
        /\ \A c \in LeafCells : \A i \in 1 .. Len(heap[c].keys) :
               TargetLeaf(heap, root, heap[c].keys[i]) = c

\* C11 witness: an internal node with two separators and keys below each of its children
C11_Witness ==
    /\ capacity >= 1
    /\ height >= 3
    /\ \E c \in NodeCells :
           /\ Len(heap[c].keys) >= 2
           /\ \A i \in 1 .. Len(heap[c].pointers) : SubtreeKeys(heap, heap[c].pointers[i]) # {}

\* the leaves met from self down the _next chain, at most fuel of them
RECURSIVE ChainCells(_, _, _)
ChainCells(h, self, fuel) ==
    IF fuel = 0 THEN <<>>
    ELSE IF h[self].next = None THEN <<self>>
    ELSE <<self>> \o ChainCells(h, h[self].next, fuel - 1)

\* the keys of the leaves of s, concatenated
RECURSIVE ConcatKeys(_, _)
ConcatKeys(h, s) == IF s = <<>> THEN <<>> ELSE h[Head(s)].keys \o ConcatKeys(h, Tail(s))

\* the leaves of the tree, left to right
TreeLeaves == LevelCells(heap, root, height)

\* C12: with capacity >= 1, the chain from the leftmost leaf is finite and
\* acyclic, ends at None, and visits every leaf exactly once in left-to-right
\* tree order; keys() is the concatenation of the leaves' keys in tree order.
C12_LeafChain ==
    capacity >= 1 =>
        LET chain == ChainCells(heap, LeftmostLeaf(heap, root), Len(heap) + 1)
        IN  /\ Len(chain) <= Len(heap)
            /\ heap[chain[Len(chain)]].next = None
            /\ \A i, j \in 1 .. Len(chain) : chain[i] = chain[j] => i = j
            /\ chain = TreeLeaves
            /\ {chain[i] : i \in 1 .. Len(chain)} = LeafCells
            /\ keys = ConcatKeys(heap, TreeLeaves)

\* C12 witness: a chain of at least four leaves in a tree of three levels, where
\* the last leaf made is not the last of the chain
C12_Witness ==
    /\ capacity >= 1
    /\ height >= 3
    /\ Cardinality(LeafCells) >= 4
    /\ \E c \in LeafCells : heap[c].next # None /\ \A d \in LeafCells : d <= c

\* the promotions that internal nodes receive during insert(key) below self: for
\* each, the node, the index of the child it routed to, the pair the child
\* returned, the heap at that moment and the position the node computes for pkey
RECURSIVE Promotions(_, _, _)
Promotions(h, self, key) ==
    IF h[self].kind = "leaf" THEN {}
    ELSE LET index == bisect_right(h[self].keys, key)
             child == h[self].pointers[index + 1]
             r == NodeInsert(h, child, key)
         IN  Promotions(h, child, key) \cup
             IF r.pkey # None
             THEN {[self |-> self, index |-> index, child |-> child,
                    pkey |-> r.pkey, ppointer |-> r.ppointer, heap |-> r.heap,
                    position |-> bisect_left(r.heap[self].keys, r.pkey)]}
             ELSE {}

\* the keys and pointers of the node of promotion e right after the two
\* list inserts of insert_here, before any split
KeysBeforeSplit(e) == ListInsert(e.heap[e.self].keys, e.position, e.pkey)
PointersBeforeSplit(e) == ListInsert(e.heap[e.self].pointers, e.position + 1, e.ppointer)

\* what insert_here returns for promotion e
AfterInsertHere(e) == insert_here(e.heap, e.self, e.position, e.pkey, e.ppointer)

\* C13: (capacity >= 1) when a node's insert gets a promotion (pkey, pchild)
\* from the child at index i, the lower-bound position of pkey in the node's
\* keys is i and pkey is none of its separators; so pkey lands at keys[i] and
\* pchild at children[i+1], right after the child that split.
C13_PromotionLandsRightOfChild ==
    capacity >= 1 =>
        \A key \in Keys : \A e \in Promotions(heap, root, key) :
            /\ e.position = e.index
            /\ \A j \in 1 .. Len(e.heap[e.self].keys) : e.heap[e.self].keys[j] # e.pkey
            /\ KeysBeforeSplit(e)[e.index + 1] = e.pkey
            /\ PointersBeforeSplit(e)[e.index + 1] = e.child
            /\ PointersBeforeSplit(e)[e.index + 2] = e.ppointer
            /\ Len(PointersBeforeSplit(e)) = Len(e.heap[e.self].pointers) + 1

\* C13 witness: a node that has taken a promotion between two separators, in a
\* state where a further insert promotes into a node again
C13_Witness ==
    /\ capacity >= 1
    /\ height < MaxHeight
    /\ \E c \in NodeCells : Len(heap[c].keys) >= 2
    /\ \E key \in Keys : \E e \in Promotions(heap, root, key) :
           e.index >= 1 /\ e.index < Len(e.heap[e.self].keys)

\* C14: (capacity >= 1) when insert_here overflows, with K and C the keys and
\* children just before the split and split_index = (capacity+1) div 2: the
\* promoted key is K[split_index] and is in neither node; the node keeps
\* K[:split_index] and C[:split_index+1]; the new node gets K[split_index+1:]
\* and C[split_index+1:]; no child is lost or duplicated; both nodes have one
\* child more than keys.
C14_InternalSplit ==
    capacity >= 1 =>
        \A key \in Keys : \A e \in Promotions(heap, root, key) :
            LET K == KeysBeforeSplit(e)
                C == PointersBeforeSplit(e)
                split_index == (capacity + 1) \div 2
                r == AfterInsertHere(e)
                left == r.heap[e.self]
                right == r.heap[r.ppointer]
            IN  Len(K) = capacity + 1 =>
                    /\ r.pkey = K[split_index + 1]
                    /\ r.ppointer \notin DOMAIN e.heap
                    /\ right.kind = "node"
                    /\ \A j \in 1 .. Len(left.keys) : left.keys[j] # r.pkey
                    /\ \A j \in 1 .. Len(right.keys) : right.keys[j] # r.pkey
                    /\ left.keys = SubSeq(K, 1, split_index)
                    /\ left.pointers = SubSeq(C, 1, split_index + 1)
                    /\ right.keys = SubSeq(K, split_index + 2, Len(K))
                    /\ right.pointers = SubSeq(C, split_index + 2, Len(C))
                    /\ left.pointers \o right.pointers = C
                    /\ \A i, j \in 1 .. Len(C) : C[i] = C[j] => i = j
                    /\ Len(left.pointers) = Len(left.keys) + 1
                    /\ Len(right.pointers) = Len(right.keys) + 1

\* C14 witness: some node was made by an internal split (there are more nodes
\* than root replacements) and a further insert overflows an internal node
C14_Witness ==
    /\ capacity >= 1
    /\ height < MaxHeight
    /\ Cardinality(NodeCells) > height - 1
    /\ \E key \in Keys : \E e \in Promotions(heap, root, key) :
           Len(KeysBeforeSplit(e)) = capacity + 1

\* the elements of the set S of integers as an increasing sequence
RECURSIVE SortedSeq(_)
SortedSeq(S) ==
    IF S = {} THEN <<>>
    ELSE LET m == CHOOSE x \in S : \A y \in S : x <= y
         IN  <<m>> \o SortedSeq(S \ {m})

\* what BPTreeLeaf.insert(key) returns at the leaf that insert(key) reaches
AfterLeafInsert(key) == LeafInsert(heap, TargetLeaf(heap, root, key), key)

\* C15: (capacity >= 1) when a leaf overflows on a new key, with K its keys
\* just before the split and split_index = (capacity+1) div 2: the leaf keeps
\* K[:split_index] and its next becomes the new leaf; the new leaf holds
\* K[split_index:] and takes the old next; the promoted key is K[split_index],
\* the first key of the new leaf; no key is lost or duplicated.
C15_LeafSplit ==
    capacity >= 1 =>
        \A key \in Keys :
            LET leaf == TargetLeaf(heap, root, key)
                K == SortedSeq(SubtreeKeys(heap, leaf) \cup {key})
                split_index == (capacity + 1) \div 2
                r == AfterLeafInsert(key)
                left == r.heap[leaf]
                right == r.heap[r.ppointer]
            IN  Len(K) = capacity + 1 =>
                    /\ r.pkey # None
                    /\ r.ppointer = Len(heap) + 1
                    /\ DOMAIN r.heap = 1 .. Len(heap) + 1
                    /\ \A c \in Cells \ {leaf} : r.heap[c] = heap[c]
                    /\ left.keys = SubSeq(K, 1, split_index)
                    /\ left.next = r.ppointer
                    /\ right.kind = "leaf"
                    /\ right.keys = SubSeq(K, split_index + 1, Len(K))
                    /\ right.next = heap[leaf].next
                    /\ r.pkey = K[split_index + 1]
                    /\ r.pkey = right.keys[1]
                    /\ left.keys \o right.keys = K

\* C15 witness: leaves have split before, and an insert overflows a leaf that
\* is not the last of the chain
C15_Witness ==
    /\ capacity >= 1
    /\ height < MaxHeight
    /\ Cardinality(LeafCells) >= 3
    /\ \E key \in Keys \ inserted :
           /\ heap[TargetLeaf(heap, root, key)].next # None
           /\ AfterLeafInsert(key).pkey # None

\* C16: with capacity >= 1, every internal node has one child more than keys
\* and strictly increasing separators, also the right sibling that an
\* internal split makes when capacity = 1.
C16_NodeShape ==
    capacity >= 1 =>
        \A c \in NodeCells :
            /\ Len(heap[c].pointers) = Len(heap[c].keys) + 1
            /\ Len(heap[c].pointers) >= 1
            /\ StrictlyIncreasing(heap[c].keys)

\* C16 witness: capacity 1 and a right sibling of an internal split, which has
\* no key and one child
C16_Witness ==
    /\ capacity = 1
    /\ \E c \in NodeCells : heap[c].keys = <<>> /\ Len(heap[c].pointers) = 1

\* C17: with capacity >= 1, every leaf that is not the root holds at least
\* (capacity+1) div 2 keys, so num_leaves() <= max(1, num_keys() div ((capacity+1) div 2)).
C17_LeafMinimumFill ==
    capacity >= 1 =>
        LET least == (capacity + 1) \div 2
        IN  /\ \A c \in LeafCells \ {root} : Len(heap[c].keys) >= least
            /\ \A c \in LeafCells \ {root} : heap[c].keys # <<>>
            /\ num_leaves <= (IF num_keys \div least > 1 THEN num_keys \div least ELSE 1)

\* C17 witness: several leaves, one of them with exactly (capacity+1) div 2 keys
\* and another with more
C17_Witness ==
    /\ capacity >= 2
    /\ num_leaves >= 3
    /\ \E c \in LeafCells : Len(heap[c].keys) = (capacity + 1) \div 2
    /\ \E c \in LeafCells : Len(heap[c].keys) > (capacity + 1) \div 2

\* ------------------------------------------------------------------- reads
\* BPTreeLeaf.keys() that hands out the leaf's own list when the chain has one leaf
KeysResult_SharesLeafList(h, self) ==
    [op |-> "keys",
     alias |-> IF h[LeftmostLeaf(h, self)].next = None THEN LeftmostLeaf(h, self) ELSE None,
     value |-> NodeKeys(h, self)]

\* the list keys() returns: all_keys is a new list object (alias None: it is no
\* leaf's _keys list) filled with the keys of the chain
KeysResult(h, self) == [op |-> "keys", alias |-> None, value |-> NodeKeys(h, self)]

\* the caller calls keys()
CallKeys ==
    /\ returned' = KeysResult(heap, root)
    /\ UNCHANGED <<heap, root, capacity, inserted, run>>

\* the caller calls find(key)
CallFind(key) ==
    /\ returned' = [op |-> "find", alias |-> None, value |-> <<find(key)>>]
    /\ UNCHANGED <<heap, root, capacity, inserted, run>>

\* the caller calls stats(), which calls height(), num_nodes(), num_leaves() and num_keys()
CallStats ==
    /\ returned' = [op |-> "stats", alias |-> None, value |-> stats]
    /\ UNCHANGED <<heap, root, capacity, inserted, run>>

\* the caller empties the list it got from keys(); a leaf whose _keys is that
\* very list object is emptied with it
ChangeReturned ==
    /\ returned.op = "keys"
    /\ returned' = [returned EXCEPT !.op = "changed", !.value = <<>>]
    /\ heap' = IF returned.alias # None
               THEN [heap EXCEPT ![returned.alias].keys = <<>>]
               ELSE heap
    /\ UNCHANGED <<root, capacity, inserted, run>>

NextReads ==
    \/ \E key \in Keys : Insert(key)
    \/ CallKeys
    \/ \E key \in Keys : CallFind(key)
    \/ CallStats
    \/ ChangeReturned

SpecReads == Init /\ [][NextReads]_vars

====
